---- MODULE Spec2Model ----
(***************************************************************************)
(* Model of the in-memory marketplace backend of src/baked.py: the user    *)
(* store (users_db), the ticket ledger (tickets_db) and the pending queue  *)
(* (pending_verifications), with one action per route handler.             *)
(*                                                                         *)
(* Ticket records are Python dicts that tickets_db and                     *)
(* pending_verifications share by reference.  The model keeps the dicts in *)
(* `heap`, indexed by allocation order, and both lists hold references     *)
(* (indices into heap).  Every handler is an `async def` without an        *)
(* `await`, so on the event loop each one runs to completion: one handler  *)
(* is one atomic action.                                                   *)
(***************************************************************************)
EXTENDS Integers, Sequences, FiniteSets, TLC

VARIABLES
    users_db,               \* src/baked.py:38  email -> user record
    tickets_db,             \* src/baked.py:39  list of ticket references
    pending_verifications,  \* src/baked.py:40  list of ticket references
    heap,                   \* the ticket dicts, in allocation order
    decision,               \* observer: last status applied to each dict
    rejectedEver,           \* observer: dicts that ever got status "rejected"
    purchasedIds,           \* observer: ids of successful purchases
    last                    \* observer: the request just served and its reply

vars == <<users_db, tickets_db, pending_verifications, heap,
          decision, rejectedEver, purchasedIds, last>>

store == <<users_db, tickets_db, pending_verifications, heap>>

----------------------------------------------------------------------------
(* Bounds of the exploration *)

MaxTickets == 3            \* number of create_ticket requests explored

(* Request inputs *)

TicketIds == 1 .. (MaxTickets + 1)
Statuses == {"verified", "rejected", "pending"}
Emails == {1}
Passwords == {1, 2}
Roles == {"buyer"}

\* the User request bodies: two bodies per e-mail address and role, which
\* differ in full_name, phone and password
Users ==
    {[email |-> e,
      full_name |-> IF p = 1 THEN "Ann" ELSE "Bob",
      phone |-> IF p = 1 THEN "0700" ELSE "0711",
      password |-> p,
      role |-> r] : e \in Emails, p \in Passwords, r \in Roles}

None == 0                  \* Python None for a ticket reference

----------------------------------------------------------------------------
(* Helper functions *)

\* hashlib.sha256(password).hexdigest(): a deterministic digest, modelled as
\* an affine map modulo a prime (injective on Passwords, not the identity).
hash_password(password) == (password * 31 + 7) % 257

\* the HTTP error replies, named as the error kinds they stand for
DuplicateEmail == "400 Email already registered"
InvalidCredentials == "401 Invalid credentials"
TicketNotFound == "404 Ticket not found"
NotFoundOrUnverified == "404 Ticket not found or not verified"
OK == "200"

\* positions of a list, and the list without position i
Without(s, i) == [j \in 1 .. (Len(s) - 1) |-> IF j < i THEN s[j] ELSE s[j + 1]]

\* len(tickets_db) + 1
NextTicketId(db) == Len(db) + 1

\* variant: the id taken as a position in the list
FindById_byPosition(db, hp, ticket_id) ==
    IF ticket_id \in 1 .. Len(db) THEN db[ticket_id] ELSE None

\* variant: the last ticket with the id is taken
FindById_last(db, hp, ticket_id) ==
    LET hits == {i \in 1 .. Len(db) : hp[db[i]].id = ticket_id}
    IN  IF hits = {} THEN None
        ELSE db[CHOOSE i \in hits : \A j \in hits : i >= j]

\* variant: tickets that already carry a verification_date are skipped
FindById_undecided(db, hp, ticket_id) ==
    LET hits == {i \in 1 .. Len(db) :
                    hp[db[i]].id = ticket_id /\ ~hp[db[i]].verification_date}
    IN  IF hits = {} THEN None
        ELSE db[CHOOSE i \in hits : \A j \in hits : i <= j]

\* next((t for t in tickets_db if t["id"] == ticket_id), None)
FindById(db, hp, ticket_id) ==
    LET hits == {i \in 1 .. Len(db) : hp[db[i]].id = ticket_id}
    IN  IF hits = {} THEN None
        ELSE db[CHOOSE i \in hits : \A j \in hits : i <= j]

\* variant: the verified test left out
FindVerifiedById_anyFlag(db, hp, ticket_id) ==
    LET hits == {i \in 1 .. Len(db) : hp[db[i]].id = ticket_id}
    IN  IF hits = {} THEN None
        ELSE db[CHOOSE i \in hits : \A j \in hits : i <= j]

\* next((t for t in tickets_db if t["id"] == ticket_id and t.get("verified")), None)
FindVerifiedById(db, hp, ticket_id) ==
    LET hits == {i \in 1 .. Len(db) :
                    hp[db[i]].id = ticket_id /\ hp[db[i]].verified}
    IN  IF hits = {} THEN None
        ELSE db[CHOOSE i \in hits : \A j \in hits : i <= j]

\* variant: every status but "rejected" counts as verified
VerifiedFlag_notRejected(status) == status # "rejected"

\* variant: only "rejected" clears the flag, "verified" sets it
VerifiedFlag_unknownKept(status) == status \in {"verified", "pending"}

\* variant: every known status counts as verified
VerifiedFlag_anyKnown(status) == status \in {"verified", "rejected"}

\* verification.status == "verified"
VerifiedFlag(status) == status = "verified"

\* variant: nothing is dropped
PendingWithout_keepAll(pend, hp, ticket_id) == pend

\* variant: only the first entry with the id is dropped
PendingWithout_firstOnly(pend, hp, ticket_id) ==
    LET hits == {i \in 1 .. Len(pend) : hp[pend[i]].id = ticket_id}
    IN  IF hits = {} THEN pend
        ELSE Without(pend, CHOOSE i \in hits : \A j \in hits : i <= j)

\* [t for t in pending_verifications if t["id"] != ticket_id]
PendingWithout(pend, hp, ticket_id) ==
    LET Keep(t) == hp[t].id # ticket_id
    IN  SelectSeq(pend, Keep)

\* variant: the ticket is handed out but stays in the list
ListRemove_keep(db, hp, t) == db

\* variant: every ticket with the id is dropped
ListRemove_allWithId(db, hp, t) ==
    LET Keep(u) == hp[u].id # hp[t].id
    IN  SelectSeq(db, Keep)

\* tickets_db.remove(ticket): drops the first element equal (dict ==) to it
ListRemove(db, hp, t) ==
    LET hits == {i \in 1 .. Len(db) : db[i] = t \/ hp[db[i]] = hp[t]}
    IN  Without(db, CHOOSE i \in hits : \A j \in hits : i <= j)

\* variant: the count taken over the whole ledger
get_tickets_countAll ==
    LET IsVerified(t) == heap[t].verified
    IN  [tickets |-> SelectSeq(tickets_db, IsVerified),
         count |-> Len(tickets_db)]

\* [t for t in tickets_db if t.get("verified", False)]
get_tickets ==
    LET IsVerified(t) == heap[t].verified
    IN  [tickets |-> SelectSeq(tickets_db, IsVerified),
         count |-> Len(SelectSeq(tickets_db, IsVerified))]

get_pending_verifications ==
    [pending |-> pending_verifications, count |-> Len(pending_verifications)]

get_stats ==
    LET IsVerified(t) == heap[t].verified
    IN  [total_tickets |-> Len(tickets_db),
         verified_tickets |-> Len(SelectSeq(tickets_db, IsVerified)),
         pending_verifications |-> Len(pending_verifications),
         total_users |-> Cardinality(DOMAIN users_db)]

----------------------------------------------------------------------------
(* Observers *)

\* password: the password a register or login request carried.
\* repeat: the request is a purchase that directly follows a successful
\* purchase of the same id, or a verify that directly follows a verify with
\* the same id and status.
\* before: the verified flag a verify found on its ticket.
Reply(op, id, status, email, ticket, result) ==
    [op |-> op, id |-> id, status |-> status, email |-> email,
     ticket |-> ticket, result |-> result,
     repeat |-> \/ /\ op = "purchase"
                   /\ last.op = "purchase" /\ last.id = id /\ last.result = OK
                \/ /\ op = "verify"
                   /\ last.op = "verify" /\ last.id = id /\ last.status = status,
     password |-> 0, before |-> FALSE]

NoRequest ==
    [op |-> "none", id |-> 0, status |-> "", email |-> 0,
     ticket |-> None, result |-> OK, repeat |-> FALSE,
     password |-> 0, before |-> FALSE]

Range(s) == {s[i] : i \in 1 .. Len(s)}
IdsOf(s) == {heap[s[i]].id : i \in 1 .. Len(s)}

----------------------------------------------------------------------------
Init ==
    /\ users_db = <<>>
    /\ tickets_db = <<>>
    /\ pending_verifications = <<>>
    /\ heap = <<>>
    /\ decision = <<>>
    /\ rejectedEver = {}
    /\ purchasedIds = {}
    /\ last = NoRequest

\* variant: the duplicate test left out, the record is written again
register_overwrite(user, user_id) ==
    /\ users_db' = [e \in DOMAIN users_db \cup {user.email} |->
                      IF e = user.email
                      THEN [email |-> user.email,
                            full_name |-> user.full_name,
                            phone |-> user.phone,
                            password |-> hash_password(user.password),
                            role |-> user.role,
                            id |-> user_id]
                      ELSE users_db[e]]
    /\ last' = [Reply("register", 0, "", user.email, None, OK)
                    EXCEPT !.password = user.password]
    /\ UNCHANGED <<tickets_db, pending_verifications, heap,
                   decision, rejectedEver, purchasedIds>>

\* POST /api/register.  user_id stands for str(uuid.uuid4()), a value fresh
\* for every record; the token is minted without touching the stores.
register(user, user_id) ==
    /\ IF user.email \in DOMAIN users_db
       THEN /\ last' = [Reply("register", 0, "", user.email, None, DuplicateEmail)
                            EXCEPT !.password = user.password]
            /\ UNCHANGED users_db
       ELSE /\ users_db' = [e \in DOMAIN users_db \cup {user.email} |->
                              IF e = user.email
                              THEN [email |-> user.email,
                                    full_name |-> user.full_name,
                                    phone |-> user.phone,
                                    password |-> hash_password(user.password),
                                    role |-> user.role,
                                    id |-> user_id]
                              ELSE users_db[e]]
            /\ last' = [Reply("register", 0, "", user.email, None, OK)
                            EXCEPT !.password = user.password]
    /\ UNCHANGED <<tickets_db, pending_verifications, heap,
                   decision, rejectedEver, purchasedIds>>

\* variant: the password test left out
login_emailOnly(email, password) ==
    /\ IF email \notin DOMAIN users_db
       THEN last' = [Reply("login", 0, "", email, None, InvalidCredentials)
                        EXCEPT !.password = password]
       ELSE last' = [Reply("login", 0, "", email, None, OK)
                        EXCEPT !.password = password]
    /\ UNCHANGED <<users_db, tickets_db, pending_verifications, heap,
                   decision, rejectedEver, purchasedIds>>

\* POST /api/login
login(email, password) ==
    /\ IF email \notin DOMAIN users_db
          \/ users_db[email].password # hash_password(password)
       THEN last' = [Reply("login", 0, "", email, None, InvalidCredentials)
                        EXCEPT !.password = password]
       ELSE last' = [Reply("login", 0, "", email, None, OK)
                        EXCEPT !.password = password]
    /\ UNCHANGED <<users_db, tickets_db, pending_verifications, heap,
                   decision, rejectedEver, purchasedIds>>

\* variant: the new ticket is put at the head of the pending queue
create_ticket_pendingFirst ==
    /\ Len(heap) < MaxTickets
    /\ LET t == Len(heap) + 1
           ticket_data == [id |-> NextTicketId(tickets_db),
                           verified |-> FALSE,
                           verification_date |-> FALSE]
       IN  /\ heap' = Append(heap, ticket_data)
           /\ tickets_db' = Append(tickets_db, t)
           /\ pending_verifications' = <<t>> \o pending_verifications
           /\ decision' = Append(decision, "none")
           /\ last' = Reply("create", ticket_data.id, "pending", 0, t, OK)
    /\ UNCHANGED <<users_db, rejectedEver, purchasedIds>>

\* POST /api/tickets
create_ticket ==
    /\ Len(heap) < MaxTickets
    /\ LET t == Len(heap) + 1
           ticket_data == [id |-> NextTicketId(tickets_db),
                           verified |-> FALSE,
                           verification_date |-> FALSE]
       IN  /\ heap' = Append(heap, ticket_data)
           /\ tickets_db' = Append(tickets_db, t)
           /\ pending_verifications' = Append(pending_verifications, t)
           /\ decision' = Append(decision, "none")
           /\ last' = Reply("create", ticket_data.id, "pending", 0, t, OK)
    /\ UNCHANGED <<users_db, rejectedEver, purchasedIds>>

\* POST /api/tickets/{ticket_id}/verify
verify_ticket(ticket_id, status) ==
    /\ LET ticket == FindById(tickets_db, heap, ticket_id)
       IN  IF ticket = None
           THEN /\ last' = Reply("verify", ticket_id, status, 0, None, TicketNotFound)
                /\ UNCHANGED <<heap, pending_verifications, decision, rejectedEver>>
           ELSE /\ heap' = [heap EXCEPT ![ticket].verified = VerifiedFlag(status),
                                        ![ticket].verification_date = TRUE]
                /\ pending_verifications' =
                       PendingWithout(pending_verifications, heap', ticket_id)
                /\ decision' = [decision EXCEPT ![ticket] = status]
                /\ rejectedEver' = IF status = "rejected"
                                   THEN rejectedEver \cup {ticket}
                                   ELSE rejectedEver
                /\ last' = [Reply("verify", ticket_id, status, 0, ticket, OK)
                                EXCEPT !.before = heap[ticket].verified]
    /\ UNCHANGED <<users_db, tickets_db, purchasedIds>>

\* POST /api/tickets/{ticket_id}/purchase
purchase_ticket(ticket_id) ==
    /\ LET ticket == FindVerifiedById(tickets_db, heap, ticket_id)
       IN  IF ticket = None
           THEN /\ last' = Reply("purchase", ticket_id, "", 0, None, NotFoundOrUnverified)
                /\ UNCHANGED <<tickets_db, purchasedIds>>
           ELSE /\ tickets_db' = ListRemove(tickets_db, heap, ticket)
                /\ purchasedIds' = purchasedIds \cup {ticket_id}
                /\ last' = Reply("purchase", ticket_id, "", 0, ticket, OK)
    /\ UNCHANGED <<users_db, pending_verifications, heap, decision, rejectedEver>>

Next ==
    \/ \E user \in Users : register(user, user.email + 100)
    \/ \E email \in Emails, password \in Passwords : login(email, password)
    \/ create_ticket
    \/ \E ticket_id \in TicketIds, status \in Statuses :
          verify_ticket(ticket_id, status)
    \/ \E ticket_id \in TicketIds : purchase_ticket(ticket_id)

Spec == Init /\ [][Next]_vars

TypeOK ==
    /\ Len(heap) <= MaxTickets
    /\ Range(tickets_db) \subseteq 1 .. Len(heap)
    /\ Range(pending_verifications) \subseteq 1 .. Len(heap)
    /\ DOMAIN users_db \subseteq Emails

----------------------------------------------------------------------------
(* The views the claims speak of *)

listAvailable == get_tickets.tickets
listPending == get_pending_verifications.pending
Created == 1 .. Len(heap)

----------------------------------------------------------------------------
\* C1: no two tickets of the ledger share an id, and every create_ticket
\* assigns an id strictly greater than all ids assigned before it, the first
\* one being 1.  (heap lists the tickets in the order they were created.)
C1_UniqueMonotonicIds ==
    /\ \A i, j \in 1 .. Len(tickets_db) :
          i # j => heap[tickets_db[i]].id # heap[tickets_db[j]].id
    /\ \A a, b \in Created : a < b => heap[a].id < heap[b].id
    /\ (Len(heap) >= 1 => heap[1].id = 1)

\* C2: once purchase(id) has succeeded, no ticket with that id is ever again
\* in listAvailable() or listPending(), and purchase(id) finds nothing.
C2_PurchasedIdGone ==
    \A id \in purchasedIds :
        /\ id \notin IdsOf(listAvailable)
        /\ id \notin IdsOf(listPending)
        /\ FindVerifiedById(tickets_db, heap, id) = None

\* C3: listPending() holds exactly the created tickets that no decide has
\* been applied to.
C3_PendingExactlyUndecided ==
    Range(listPending) = {t \in Created : decision[t] = "none"}

\* C4 as stated: a ticket that was ever rejected is never verified, listed
\* as available, or purchased afterwards.
C4_RejectedIsTerminal ==
    \A t \in rejectedEver :
        /\ ~heap[t].verified
        /\ t \notin Range(listAvailable)
        /\ t \in Range(tickets_db)

\* C4 amended: a ticket whose most recent decision is "rejected" is not
\* verified, not available, not purchasable and stays in the ledger; the
\* only step that makes it verified is a decide(id, verified) applied to it.
C4_RejectedUntilReverified ==
    [][\A t \in Created :
          decision[t] = "rejected" =>
             /\ ~heap[t].verified
             /\ t \notin Range(listAvailable)
             /\ t \in Range(tickets_db) /\ t \in Range(tickets_db')
             /\ (heap'[t].verified =>
                    /\ last'.op = "verify" /\ last'.status = "verified"
                    /\ last'.ticket = t /\ last'.result = OK)]_vars

C4_Witness ==
    \E t \in rejectedEver :
        /\ decision[t] = "rejected"
        /\ last.op = "purchase" /\ last.id = heap[t].id
        /\ last.result = NotFoundOrUnverified

\* C5: every successful purchase removes a ticket whose verified flag is
\* true at that moment and whose most recent decision is "verified".
C5_PurchaseOnlyVerified ==
    [][(last'.op = "purchase" /\ last'.result = OK) =>
          /\ last'.ticket \in Range(tickets_db)
          /\ last'.ticket \notin Range(tickets_db')
          /\ heap[last'.ticket].verified
          /\ decision[last'.ticket] = "verified"]_vars

C5_Witness ==
    /\ last.op = "purchase" /\ last.result = OK
    /\ last.ticket \in rejectedEver
    /\ \E t \in Range(tickets_db) : ~heap[t].verified

\* C6: when a verified ticket with the id is in the ledger, purchase(id)
\* succeeds, and a purchase(id) that directly follows it fails with
\* NotFoundOrUnverified.
C6_DoublePurchase ==
    [][(last'.op = "purchase") =>
          /\ (last'.id \in IdsOf(listAvailable) => last'.result = OK)
          /\ (last'.repeat => last'.result = NotFoundOrUnverified)]_vars

C6_Witness ==
    /\ last.op = "purchase" /\ last.repeat
    /\ last.result = NotFoundOrUnverified

\* C7: purchase(id) fails with NotFoundOrUnverified whenever no verified
\* ticket with that id is in the ledger, and a failed purchase changes
\* neither the ledger, the tickets, the pending queue nor the user store.
C7_PurchaseFailure ==
    [][(last'.op = "purchase") =>
          /\ (last'.id \notin IdsOf(listAvailable) =>
                 last'.result = NotFoundOrUnverified)
          /\ (last'.result = NotFoundOrUnverified => UNCHANGED store)]_vars

C7_Witness ==
    /\ last.op = "purchase" /\ last.result = NotFoundOrUnverified
    /\ last.id \in IdsOf(tickets_db)
    /\ pending_verifications # <<>> /\ DOMAIN users_db # {}

\* C8: right after a successful decide(id, verified) no ticket with that id
\* is pending and the decided ticket is available with verified = true;
\* right after a successful decide(id, rejected) no ticket with that id is
\* pending and the decided ticket is not available.
C8_AfterDecide ==
    (last.op = "verify" /\ last.result = OK) =>
        /\ (last.status = "verified" =>
               /\ last.id \notin IdsOf(listPending)
               /\ last.ticket \in Range(listAvailable)
               /\ heap[last.ticket].verified)
        /\ (last.status = "rejected" =>
               /\ last.id \notin IdsOf(listPending)
               /\ last.ticket \notin Range(listAvailable))

C8_Witness ==
    /\ last.op = "verify" /\ last.result = OK /\ last.status = "verified"
    /\ last.ticket \in rejectedEver
    /\ last.ticket \in Range(listAvailable)

\* C9: a successful purchase(id) removes exactly one ticket from the
\* ledger, the verified ticket with that id that it returns; the other
\* tickets, their order, the pending queue and the user store are unchanged.
C9_PurchaseFrame ==
    [][(last'.op = "purchase" /\ last'.result = OK) =>
          /\ heap[last'.ticket].verified
          /\ heap[last'.ticket].id = last'.id
          /\ \E i \in 1 .. Len(tickets_db) :
                /\ tickets_db[i] = last'.ticket
                /\ tickets_db' = Without(tickets_db, i)
          /\ UNCHANGED <<heap, pending_verifications, users_db>>]_vars

C9_Witness ==
    /\ last.op = "purchase" /\ last.result = OK
    /\ last.id \in IdsOf(tickets_db)
    /\ pending_verifications # <<>>

\* C10: decide(id, outcome) fails with TicketNotFound exactly when no ticket
\* with that id is in the ledger, and a failed decide changes neither the
\* ledger, the tickets' flags nor the pending queue.
C10_DecideFailure ==
    [][(last'.op = "verify") =>
          /\ (last'.result = TicketNotFound <=> last'.id \notin IdsOf(tickets_db))
          /\ (last'.result = TicketNotFound => UNCHANGED store)]_vars

C10_Witness ==
    /\ last.op = "verify" /\ last.result = TicketNotFound
    /\ last.id \in purchasedIds
    /\ tickets_db # <<>>

\* the verified flag of every ticket dict
Flags(hp) == [t \in 1 .. Len(hp) |-> hp[t].verified]

\* C11 as stated: for every id and outcome, a decide(id, outcome) that
\* directly follows the same decide succeeds, as the first one did, and
\* leaves the verified flags and the pending queue as the first one left
\* them.
C11_DecideTwiceSucceeds ==
    [][(last'.op = "verify" /\ last'.repeat) =>
          /\ last.result = OK /\ last'.result = OK
          /\ Flags(heap') = Flags(heap)
          /\ pending_verifications' = pending_verifications]_vars

\* C11 amended: when decide(id, outcome) succeeded, the same decide applied
\* directly after it succeeds too, on the same ticket, and leaves the
\* verified flags, the ledger and the pending queue as the first one left
\* them; when the first one failed with TicketNotFound, so does the second.
C11_DecideIdempotent ==
    [][(last'.op = "verify" /\ last'.repeat) =>
          /\ last'.result = last.result
          /\ last'.ticket = last.ticket
          /\ Flags(heap') = Flags(heap)
          /\ tickets_db' = tickets_db
          /\ pending_verifications' = pending_verifications]_vars

C11_Witness ==
    /\ last.op = "verify" /\ last.repeat /\ last.result = OK
    /\ last.status = "rejected"
    /\ pending_verifications # <<>>

\* C12: no step changes or removes a stored user record, and a register
\* with an e-mail address that is already registered fails with
\* DuplicateEmail and leaves the user store as it was.
C12_UserRecordImmutable ==
    [][/\ \A e \in DOMAIN users_db :
             e \in DOMAIN users_db' /\ users_db'[e] = users_db[e]
       /\ (last'.op = "register" /\ last'.email \in DOMAIN users_db) =>
             /\ last'.result = DuplicateEmail
             /\ users_db' = users_db]_vars

C12_Witness ==
    /\ last.op = "register" /\ last.result = DuplicateEmail
    /\ last.email \in DOMAIN users_db
    /\ users_db[last.email].password # hash_password(last.password)

\* C13: login succeeds exactly when the e-mail address is registered and the
\* hash of the given password equals the stored hash; otherwise it fails
\* with InvalidCredentials; the user store, the ledger, the tickets and the
\* pending queue are unchanged either way.
C13_Login ==
    [][(last'.op = "login") =>
          /\ (last'.result = OK <=>
                 /\ last'.email \in DOMAIN users_db
                 /\ users_db[last'.email].password = hash_password(last'.password))
          /\ last'.result \in {OK, InvalidCredentials}
          /\ UNCHANGED store]_vars

C13_Witness ==
    /\ last.op = "login" /\ last.result = InvalidCredentials
    /\ last.email \in DOMAIN users_db
    /\ tickets_db # <<>>

\* C14: listAvailable() returns exactly the ledger's tickets with verified
\* true, each once, in the order of their creation, and count is the length
\* of that list.
C14_ListAvailable ==
    LET av == get_tickets.tickets
    IN  /\ Range(av) = {t \in Range(tickets_db) : heap[t].verified}
        /\ \A i, j \in 1 .. Len(av) : i < j => av[i] < av[j]
        /\ get_tickets.count = Len(av)

C14_Witness ==
    /\ Len(get_tickets.tickets) >= 2
    /\ \E t \in Range(tickets_db) : ~heap[t].verified /\ t < get_tickets.tickets[2]

\* C15: create_ticket always replies 200; it appends one new ticket with
\* verified false to the end of the ledger and of the pending queue and
\* leaves the existing tickets, pending entries and the user store as they
\* were.
C15_CreateFrame ==
    [][(last'.op = "create") =>
          LET t == last'.ticket
          IN  /\ last'.result = OK
              /\ t \notin Created
              /\ tickets_db' = Append(tickets_db, t)
              /\ pending_verifications' = Append(pending_verifications, t)
              /\ Len(heap') = Len(heap) + 1
              /\ \A u \in Created : heap'[u] = heap[u]
              /\ ~heap'[t].verified
              /\ heap'[t].id = last'.id
              /\ users_db' = users_db]_vars

C15_Witness ==
    /\ last.op = "create"
    /\ Len(tickets_db) >= 2 /\ Len(pending_verifications) >= 2
    /\ DOMAIN users_db # {}

\* C16: a ticket that has left the pending queue never enters it again, the
\* queue gains an entry only by create_ticket and only the new ticket, and
\* while a ticket that has left the queue is unverified, purchase on its id
\* fails.
C16_NoReentry ==
    [][/\ \A t \in Created \ Range(pending_verifications) :
             t \notin Range(pending_verifications')
       /\ \A t \in Range(pending_verifications') \ Range(pending_verifications) :
             last'.op = "create" /\ last'.ticket = t /\ t \notin Created
       /\ (last'.op = "purchase"
           /\ \E t \in Range(tickets_db) \ Range(pending_verifications) :
                 heap[t].id = last'.id /\ ~heap[t].verified) =>
             last'.result = NotFoundOrUnverified]_vars

\* C17: every entry of the pending queue is a ticket of the ledger with
\* verified false, listed once, and get_stats satisfies
\* verified_tickets + pending_verifications <= total_tickets.
C17_PendingInLedger ==
    /\ \A t \in Range(pending_verifications) :
          t \in Range(tickets_db) /\ ~heap[t].verified
    /\ Cardinality(Range(pending_verifications)) = Len(pending_verifications)
    /\ Range(pending_verifications) \cap Range(get_tickets.tickets) = {}
    /\ get_stats.verified_tickets + get_stats.pending_verifications
          <= get_stats.total_tickets

C17_Witness ==
    /\ get_stats.verified_tickets >= 1
    /\ get_stats.pending_verifications >= 1
    /\ get_stats.total_tickets >= 3

\* C18: for each id at most one ticket of the ledger with that id is
\* verified, and it is the earliest created of the ledger's tickets with
\* that id.
C18_OneVerifiedPerId ==
    \A t \in Range(tickets_db) :
        heap[t].verified =>
            \A u \in Range(tickets_db) :
                (u # t /\ heap[u].id = heap[t].id) =>
                    ~heap[u].verified /\ t < u

C18_Witness ==
    \E t, u \in Range(tickets_db) :
        t # u /\ heap[t].id = heap[u].id /\ heap[t].verified

\* C19: a successful decide(id, outcome) with an outcome other than
\* "verified" on a verified ticket clears its flag: the ticket is not in
\* listAvailable(), stays in the ledger, is not in the pending queue, and a
\* purchase(id) that directly follows fails with NotFoundOrUnverified.
C19_Unverify ==
    [][/\ (/\ last'.op = "verify" /\ last'.result = OK
           /\ last'.status # "verified" /\ last'.before) =>
             LET t == last'.ticket
             IN  /\ heap[t].verified /\ ~heap'[t].verified
                 /\ t \in Range(listAvailable)
                 /\ t \notin Range(listAvailable')
                 /\ t \in Range(tickets_db')
                 /\ t \notin Range(listPending')
       /\ (/\ last.op = "verify" /\ last.result = OK
           /\ last.status # "verified" /\ last.before
           /\ last'.op = "purchase" /\ last'.id = last.id) =>
             last'.result = NotFoundOrUnverified]_vars

C19_Witness ==
    /\ last.op = "verify" /\ last.result = OK
    /\ last.status = "pending" /\ last.before
    /\ ~heap[last.ticket].verified
====
